---- MODULE Spec2Model ----
(***************************************************************************)
(* A model of the pretty-printer's Formatter (src/formatter/formatter.ts), *)
(* its CircularIdGenerator (src/formatter/circular_id_generator.ts) and    *)
(* getConstructorName (src/utils.ts).                                      *)
(*                                                                         *)
(* Text is a sequence of tokens (strings); an indentation of n columns is  *)
(* n tokens " ".  A top-level format call is run as a stack machine: one   *)
(* frame per _formatObjectEntries activation, one step per entry of the    *)
(* composite being enumerated.  A thrown error unwinds the whole stack.    *)
(***************************************************************************)
EXTENDS Naturals, Sequences, FiniteSets, TLC

(***************************************************************************)
(* Bounds of the model.                                                    *)
(***************************************************************************)
\* total number of entries held by the composites of the heap
MaxEntries == 2
\* number of top-level format calls made on the one Formatter
MaxCalls == 2

(***************************************************************************)
(* Program constants.                                                      *)
(***************************************************************************)
DefaultIndent == 2
DefaultDepth == 20
DENO_FN_FORMAT_INDENTATION_SIZE == 4
FirstId == 1

(***************************************************************************)
(* The values a program can hand to format.                                *)
(***************************************************************************)
\* identities of the composite values of the heap
Objs == {"o1", "o2"}

\* values that are rendered without recursion
Scalars ==
  {"num", "bool", "big", "sym", "undef", "null", "regex", "date",
   "str", "mstr", "fn", "mfn"}

\* scalar values that callers hand to a top-level format call
TopScalars == {"num", "mstr", "mfn", "date"}

\* scalar values that occur as elements of composites
NestedScalars == {"num"}

\* an element whose retrieval throws (a throwing getter or iterator)
Throwing == "THROW"

Slots == Objs \cup NestedScalars \cup {Throwing}

\* runtime classes of the composites: what `instanceof`, `"length" in`,
\* Symbol.iterator and `.constructor.name` answer for them
Classes == {"Object", "Array", "Map", "Set", "Iter", "NullProto", "Anon"}

\* typeof value
TypeOf(v) ==
  CASE v = "num" -> "number"
    [] v = "bool" -> "boolean"
    [] v = "big" -> "bigint"
    [] v = "sym" -> "symbol"
    [] v = "undef" -> "undefined"
    [] v \in {"str", "mstr"} -> "string"
    [] v \in {"fn", "mfn"} -> "function"
    [] OTHER -> "object"

\* characters of the textual values; "\n" is a newline, "\t" a tab
StrChars(v) ==
  CASE v = "str" -> <<"a", "\t", "b">>
    [] v = "mstr" -> <<"a", "\n", "b">>
    [] OTHER -> <<"k">>

\* Function.prototype.toString of the callables, line by line: the number
\* of leading blanks of a line and the rest of it
FnLines(v) ==
  CASE v = "fn" -> << [ws |-> 0, text |-> "function a() {}"] >>
    [] OTHER -> << [ws |-> 0, text |-> "function b() {"],
                   [ws |-> 6, text |-> "body;"],
                   [ws |-> 3, text |-> "more;"],
                   [ws |-> 4, text |-> "}"] >>

(***************************************************************************)
(* Text helpers.                                                           *)
(***************************************************************************)
\* " ".repeat(n)
Spaces(n) == [i \in 1..n |-> " "]

\* str.split(/\n/g): the lines of a sequence of characters
RECURSIVE Split(_)
Split(chars) ==
  IF \A i \in 1..Len(chars) : chars[i] # "\n"
  THEN <<chars>>
  ELSE LET i == CHOOSE j \in 1..Len(chars) :
                  chars[j] = "\n" /\ \A k \in 1..(j - 1) : chars[k] # "\n"
       IN  <<SubSeq(chars, 1, i - 1)>> \o Split(SubSeq(chars, i + 1, Len(chars)))

\* lines.join("\n")
RECURSIVE Join(_)
Join(lines) ==
  IF Len(lines) = 0 THEN <<>>
  ELSE IF Len(lines) = 1 THEN lines[1]
  ELSE lines[1] \o <<"\n">> \o Join(Tail(lines))

\* the backtick character that quotes a multi-line string
BACKTICK == "<backtick>"

\* escapeReplacerFn applied by str.replace(ESCAPE_REGEX, ...)
escapeReplacerFn(c) ==
  IF c = "\n" THEN "\\n" ELSE IF c = "\t" THEN "\\t" ELSE c

(***************************************************************************)
(* A Formatter instance: its options and its internal constructor          *)
(* parameters.  The shared _seen map and _circularIdGenerator are the      *)
(* variables seen, generatedIds and currentId below.                       *)
(***************************************************************************)
\* new Formatter(options): the root engine
Formatter(opts) ==
  [indent |-> opts.indent, depth |-> opts.depth, indentRoot |-> opts.indentRoot,
   escapeString |-> opts.escapeString, circularId |-> opts.circularId,
   initialIndent |-> opts.indent,
   skipFirstLineIdentation |-> FALSE,
   currentDepth |-> 1]

\* the depth guard with > for >=
hitMaxDepthOffByOne(f) == f.currentDepth > f.depth

\* get _hitMaxDepth
hitMaxDepth(f) == f.currentDepth >= f.depth

\* a child engine whose indent grows whatever the parent's indentRoot
getChildFormatterAlwaysIndent(f, skip) ==
  [f EXCEPT !.indent = f.indent + f.initialIndent,
            !.indentRoot = TRUE,
            !.skipFirstLineIdentation = skip,
            !.currentDepth = f.currentDepth + 1]

\* _getChildFormatter(skipFirstLineIdentation)
getChildFormatter(f, skip) ==
  [f EXCEPT !.indent = f.indent + (IF f.indentRoot THEN f.initialIndent ELSE 0),
            !.indentRoot = TRUE,
            !.skipFirstLineIdentation = skip,
            !.currentDepth = f.currentDepth + 1]

formatWithIndent(content, indent) == Spaces(indent) \o content

formatFirstLine(f, content) ==
  IF f.skipFirstLineIdentation \/ ~f.indentRoot
  THEN content
  ELSE formatWithIndent(content, f.indent)

\* _wrap(wrapper, content); a wrapper is a pair of texts
wrap(wrapper, content) == wrapper[1] \o content \o wrapper[2]

(***************************************************************************)
(* Rendering of the values that need no recursion.                         *)
(***************************************************************************)
formatString(f, chars) ==
  IF f.escapeString
  THEN formatFirstLine(f,
         wrap(<< <<"\"">>, <<"\"">> >>, [i \in 1..Len(chars) |-> escapeReplacerFn(chars[i])]))
  ELSE LET lines == Split(chars)
           indented == [n \in 1..Len(lines) |->
                          IF n = 1 THEN lines[n]
                          ELSE formatWithIndent(lines[n], f.indent)]
       IN  IF Len(lines) = 1
           THEN formatFirstLine(f, wrap(<< <<"\"">>, <<"\"">> >>, chars))
           ELSE formatFirstLine(f, wrap(<< <<BACKTICK>>, <<BACKTICK>> >>, Join(indented)))

\* a source line as text
LineText(l) == Spaces(l.ws) \o <<l.text>>

formatFunction(f, fnLines) ==
  LET length == Len(fnLines)
      lastLineIndex == length
      last == fnLines[lastLineIndex]
      \* /^ +/ matches one or more leading blanks of the last line
      extraIndentationCount == last.ws
      lastText == IF last.ws > 0
                  THEN formatWithIndent(<<last.text>>, f.indent)
                  ELSE LineText(last)
      \* ^ {extra,} matches all the leading blanks when there are enough
      inner(l) ==
        IF l.ws >= extraIndentationCount
        THEN formatWithIndent(<<l.text>>,
               f.indent + (f.initialIndent * (l.ws - extraIndentationCount))
                            \div DENO_FN_FORMAT_INDENTATION_SIZE)
        ELSE LineText(l)
  IN  IF length = 1
      THEN LineText(fnLines[1])
      ELSE Join([n \in 1..length |->
                   IF n = 1 THEN formatFirstLine(f, LineText(fnLines[1]))
                   ELSE IF n = lastLineIndex THEN lastText
                   ELSE inner(fnLines[n])])

\* format(value) for the values that are no composite
formatScalar(f, v) ==
  CASE TypeOf(v) = "bigint" -> formatFirstLine(f, <<"7n">>)
    [] TypeOf(v) = "boolean" -> formatFirstLine(f, <<"true">>)
    [] TypeOf(v) = "function" -> formatFunction(f, FnLines(v))
    [] TypeOf(v) = "number" -> formatFirstLine(f, <<"42">>)
    [] TypeOf(v) = "string" -> formatString(f, StrChars(v))
    [] TypeOf(v) = "symbol" -> formatFirstLine(f, <<"Symbol(s)">>)
    [] TypeOf(v) = "undefined" -> formatFirstLine(f, <<"undefined">>)
    [] v = "null" -> formatFirstLine(f, <<"null">>)
    [] v = "regex" -> formatFirstLine(f, <<"/a+/gi">>)
    [] v = "date" -> formatFirstLine(f, <<"Date", " { ", "1970-01-01T00:00:00.000Z", " }">>)

(***************************************************************************)
(* State.                                                                  *)
(***************************************************************************)
VARIABLES
  heap,          \* the composites: their runtime class and their elements
  options,       \* Formatter.options of the root engine
  seen,          \* Formatter._seen: identity -> CircularId
  generatedIds,  \* CircularIdGenerator._generatedIds: identity -> CircularId
  currentId,     \* CircularIdGenerator._currentId
  stack,         \* the active _formatObjectEntries calls, innermost first
  status,        \* "idle", "running", "returned" or "threw"
  out,           \* the text the last top-level format call returned
  arg,           \* the value handed to the current top-level format call
  ncalls,        \* top-level format calls made so far
  visitOrder,    \* identities in the order generateId first saw them
  ev             \* what the last step did

vars == <<heap, options, seen, generatedIds, currentId, stack, status, out,
          arg, ncalls, visitOrder, ev>>

(***************************************************************************)
(* Runtime classes: the answers format's dispatch and getConstructorName   *)
(* get from an object.                                                     *)
(***************************************************************************)
isMap(c) == c = "Map"
isSet(c) == c = "Set"
hasLength(c) == c = "Array"
isIterable(c) == c \in {"Array", "Map", "Set", "Iter"}

\* the "object" branch of format for a composite of class c: which
\* format<Category> method it reaches
Category(c) ==
  IF isMap(c) THEN "Map"
  ELSE IF isSet(c) THEN "Set"
  ELSE IF hasLength(c) THEN "Array"
  ELSE IF isIterable(c) THEN "Iterable"
  ELSE "Object"

\* the wrapper each format<Category> method hands to _formatObjectEntries
Wrapper(cat) == IF cat = "Array" THEN <<"[", "]">> ELSE <<"{", "}">>

\* formatMap and formatObject yield Entry objects, the others bare values
YieldsEntry(cat) == cat \in {"Map", "Object"}

Separator(cat) == IF cat = "Map" THEN " => " ELSE ": "

\* obj.constructor: "none" when the object has no constructor at all
\* (Object.create(null)), "noname" when its constructor has no name
Constructor(c) ==
  IF c = "NullProto" THEN "none" ELSE IF c = "Anon" THEN "noname" ELSE c

\* Object.prototype.toString.call(obj) with "[object " and "]" removed
ToStringTag(c) == IF c = "Array" THEN "Array" ELSE "Object"

\* getConstructorName(obj): reading .name of a missing constructor throws
getConstructorName(c) ==
  IF Constructor(c) = "none" THEN [threw |-> TRUE, name |-> ""]
  ELSE IF Constructor(c) = "noname" THEN [threw |-> FALSE, name |-> ToStringTag(c)]
  ELSE [threw |-> FALSE, name |-> Constructor(c)]

(***************************************************************************)
(* The identity maps.                                                      *)
(***************************************************************************)
MapSet(m, k, v) == [x \in DOMAIN m \cup {k} |-> IF x = k THEN v ELSE m[x]]
MapDelete(m, k) == [x \in DOMAIN m \ {k} |-> m[x]]
EmptyMap == [x \in {} |-> 0]

\* a generator that does not look up the ids it has given
generateIdNoLookup(ids, cur, obj) ==
  [id |-> cur, ids |-> MapSet(ids, obj, cur), cur |-> cur + 1]

\* CircularIdGenerator.generateId(obj): the id, and the generator afterwards
generateId(ids, cur, obj) ==
  IF obj \in DOMAIN ids
  THEN [id |-> ids[obj], ids |-> ids, cur |-> cur]
  ELSE [id |-> cur, ids |-> MapSet(ids, obj, cur), cur |-> cur + 1]

\* formatCircularRef(obj) of engine f
formatCircularRef(f, sn, obj) ==
  formatFirstLine(f,
    wrap(<< <<"[">>, <<"]">> >>,
      <<"Circular">> \o
        (IF f.circularId
         THEN <<"#" \o (IF obj \in DOMAIN sn THEN ToString(sn[obj]) ELSE "unknown")>>
         ELSE <<>>)))

\* the text _formatObjectEntries returns when the depth guard stops it
formatDepthCapped(f, name) == formatWithIndent(wrap(<< <<"[">>, <<"]">> >>, <<name>>), f.indent)

\* the text _formatObjectEntries returns after the loop
formatExpanded(f, name, seenId, wrapper, content) ==
  formatFirstLine(f,
    <<name>> \o (IF f.circularId THEN <<"#" \o ToString(seenId)>> ELSE <<>>)
      \o <<" ">> \o
      wrap(<< <<wrapper[1]>>,
              IF f.indentRoot
              THEN formatWithIndent(<<wrapper[2]>>, f.indent)
              ELSE <<wrapper[2]>> >>,
           <<"\n">> \o content))

(***************************************************************************)
(* The heaps and the options the model starts from.                        *)
(***************************************************************************)
RECURSIVE SeqsUpTo(_, _)
SeqsUpTo(S, n) ==
  IF n = 0 THEN {<<>>}
  ELSE LET shorter == SeqsUpTo(S, n - 1)
       IN  shorter \cup {Append(q, x) : q \in {r \in shorter : Len(r) = n - 1}, x \in S}

RECURSIVE SumLen(_, _)
SumLen(h, os) ==
  IF os = {} THEN 0
  ELSE LET o == CHOOSE x \in os : TRUE
       IN  Len(h[o].entries) + SumLen(h, os \ {o})

\* "o1" is a plain record; the other composites are of any class
ClassesOf(o) == IF o = "o1" THEN {"Object"} ELSE Classes

Heaps ==
  {h \in [Objs -> [class : Classes, entries : SeqsUpTo(Slots, MaxEntries)]] :
     /\ \A o \in Objs : h[o].class \in ClassesOf(o)
     /\ SumLen(h, Objs) <= MaxEntries}

\* the options a caller constructs the Formatter with
\* the defaults of defaultFormatterOptions
defaultFormatterOptions ==
  [indent |-> DefaultIndent, depth |-> DefaultDepth, indentRoot |-> FALSE,
   escapeString |-> FALSE, circularId |-> FALSE]

\* the options a caller constructs the Formatter with: every combination
\* of depth, indentRoot and circularId; escapeString is switched on with
\* the default depth and indentRoot only
Options ==
  {o \in [indent : {DefaultIndent}, depth : {1, 2, DefaultDepth},
           indentRoot : BOOLEAN, escapeString : BOOLEAN, circularId : BOOLEAN] :
     o.escapeString =>
       /\ o.depth = defaultFormatterOptions.depth
       /\ o.indentRoot = defaultFormatterOptions.indentRoot}

NoFormatter ==
  [indent |-> 0, depth |-> 0, indentRoot |-> FALSE, escapeString |-> FALSE,
   circularId |-> FALSE, initialIndent |-> 0, skipFirstLineIdentation |-> FALSE,
   currentDepth |-> 0]

\* a step's record: what was done to which value by which engine
Event(kind, val, parent, f, text) ==
  [kind |-> kind, val |-> val, parent |-> parent, fmt |-> f, text |-> text]

Init ==
  /\ heap \in Heaps
  /\ options \in Options
  /\ seen = EmptyMap
  /\ generatedIds = EmptyMap
  /\ currentId = FirstId
  /\ stack = <<>>
  /\ status = "idle"
  /\ out = <<>>
  /\ arg = "undef"
  /\ ncalls = 0
  /\ visitOrder = <<>>
  /\ ev = Event("init", "undef", NoFormatter, NoFormatter, <<>>)

(***************************************************************************)
(* The value being formatted next and the engine that formats it: the root *)
(* engine and the argument of the call, or a child engine of the innermost *)
(* active composite and its next element.                                  *)
(***************************************************************************)
Top == stack[1]
ClassOf(o) == heap[o].class
CategoryOf(o) == Category(ClassOf(o))
Entries(o) == heap[o].entries

HasTarget ==
  /\ status = "running"
  /\ stack # <<>> => Top.idx <= Len(Entries(Top.obj))

TargetValue == IF stack = <<>> THEN arg ELSE Entries(Top.obj)[Top.idx]

\* the engine whose format receives the value: for an Entry the value
\* engine (_getChildFormatter(true)), for a bare value the keyFormatter
TargetFormatter ==
  IF stack = <<>> THEN Formatter(options)
  ELSE getChildFormatter(Top.fmt, YieldsEntry(CategoryOf(Top.obj)))

ParentFormatter == IF stack = <<>> THEN NoFormatter ELSE Top.fmt

\* the key of an Entry is a one-character string
KeyChars == <<"k">>

\* what the loop body adds to content for one element rendered as text
EntryText(fr, text) ==
  IF YieldsEntry(CategoryOf(fr.obj))
  THEN wrap(<< formatString(getChildFormatter(fr.fmt, FALSE), KeyChars),
               text \o <<",", "\n">> >>,
            <<Separator(CategoryOf(fr.obj))>>)
  ELSE text \o <<",", "\n">>

\* a format call returns text: to the caller of the top-level call, or into
\* the content of the composite that is enumerating
Return(stk, text) ==
  IF stk = <<>>
  THEN /\ stack' = <<>>
       /\ out' = text
       /\ status' = "returned"
  ELSE /\ stack' = <<[stk[1] EXCEPT !.content = @ \o EntryText(stk[1], text),
                                    !.idx = @ + 1]>> \o Tail(stk)
       /\ UNCHANGED <<out, status>>

\* an error leaves every active call at once; nothing is caught
Throw ==
  /\ stack' = <<>>
  /\ status' = "threw"
  /\ out' = <<>>

(***************************************************************************)
(* Actions.                                                                *)
(***************************************************************************)
\* a caller calls format(v) on the Formatter
Call(v) ==
  /\ status # "running"
  /\ ncalls < MaxCalls
  /\ arg' = v
  /\ ncalls' = ncalls + 1
  /\ status' = "running"
  /\ stack' = <<>>
  /\ out' = <<>>
  /\ ev' = Event("call", v, NoFormatter, Formatter(options), <<>>)
  /\ UNCHANGED <<heap, options, seen, generatedIds, currentId, visitOrder>>

\* format of a value that is no composite
FormatScalar ==
  /\ HasTarget
  /\ TargetValue \in Scalars
  /\ LET text == formatScalar(TargetFormatter, TargetValue)
     IN  /\ Return(stack, text)
         /\ ev' = Event("scalar", TargetValue, ParentFormatter, TargetFormatter, text)
  /\ UNCHANGED <<heap, options, seen, generatedIds, currentId, arg, ncalls, visitOrder>>

\* _formatObjectEntries: the value is in _seen
FormatCircular ==
  /\ HasTarget
  /\ TargetValue \in Objs
  /\ TargetValue \in DOMAIN seen
  /\ LET text == formatCircularRef(TargetFormatter, seen, TargetValue)
     IN  /\ Return(stack, text)
         /\ ev' = Event("circular", TargetValue, ParentFormatter, TargetFormatter, text)
  /\ UNCHANGED <<heap, options, seen, generatedIds, currentId, arg, ncalls, visitOrder>>

\* _formatObjectEntries: getConstructorName throws
ConstructorNameThrows ==
  /\ HasTarget
  /\ TargetValue \in Objs
  /\ TargetValue \notin DOMAIN seen
  /\ getConstructorName(ClassOf(TargetValue)).threw
  /\ Throw
  /\ ev' = Event("throwName", TargetValue, ParentFormatter, TargetFormatter, <<>>)
  /\ UNCHANGED <<heap, options, seen, generatedIds, currentId, arg, ncalls, visitOrder>>

\* _formatObjectEntries: the depth guard
FormatDepthCapped ==
  /\ HasTarget
  /\ TargetValue \in Objs
  /\ TargetValue \notin DOMAIN seen
  /\ ~getConstructorName(ClassOf(TargetValue)).threw
  /\ hitMaxDepth(TargetFormatter)
  /\ LET text == formatDepthCapped(TargetFormatter,
                                   getConstructorName(ClassOf(TargetValue)).name)
     IN  /\ Return(stack, text)
         /\ ev' = Event("capped", TargetValue, ParentFormatter, TargetFormatter, text)
  /\ UNCHANGED <<heap, options, seen, generatedIds, currentId, arg, ncalls, visitOrder>>

\* _formatObjectEntries: the value gets its id, enters _seen and its
\* enumeration starts
Enter ==
  /\ HasTarget
  /\ TargetValue \in Objs
  /\ TargetValue \notin DOMAIN seen
  /\ ~getConstructorName(ClassOf(TargetValue)).threw
  /\ ~hitMaxDepth(TargetFormatter)
  /\ LET g == generateId(generatedIds, currentId, TargetValue)
     IN  /\ generatedIds' = g.ids
         /\ currentId' = g.cur
         /\ visitOrder' = IF TargetValue \in DOMAIN generatedIds
                          THEN visitOrder ELSE Append(visitOrder, TargetValue)
         /\ seen' = MapSet(seen, TargetValue, g.id)
         /\ stack' = <<[obj |-> TargetValue, fmt |-> TargetFormatter, idx |-> 1,
                        content |-> <<>>, seenId |-> g.id,
                        constructorName |->
                          getConstructorName(ClassOf(TargetValue)).name]>> \o stack
         /\ ev' = Event("enter", TargetValue, ParentFormatter, TargetFormatter, <<>>)
  /\ UNCHANGED <<heap, options, status, out, arg, ncalls>>

\* contentIterator.next() throws
EnumerationThrows ==
  /\ HasTarget
  /\ stack # <<>>
  /\ TargetValue = Throwing
  /\ Throw
  /\ ev' = Event("throwEnum", Top.obj, ParentFormatter, TargetFormatter, <<>>)
  /\ UNCHANGED <<heap, options, seen, generatedIds, currentId, arg, ncalls, visitOrder>>

\* _formatObjectEntries: the iterator is done
Exit ==
  /\ status = "running"
  /\ stack # <<>>
  /\ Top.idx > Len(Entries(Top.obj))
  /\ seen' = MapDelete(seen, Top.obj)
  /\ LET text == formatExpanded(Top.fmt, Top.constructorName, Top.seenId,
                                Wrapper(CategoryOf(Top.obj)), Top.content)
     IN  /\ Return(Tail(stack), text)
         /\ ev' = Event("exit", Top.obj,
                        IF Len(stack) > 1 THEN stack[2].fmt ELSE NoFormatter,
                        Top.fmt, text)
  /\ UNCHANGED <<heap, options, generatedIds, currentId, arg, ncalls, visitOrder>>

Next ==
  \/ \E v \in Objs \cup TopScalars : Call(v)
  \/ FormatScalar
  \/ FormatCircular
  \/ ConstructorNameThrows
  \/ FormatDepthCapped
  \/ Enter
  \/ EnumerationThrows
  \/ Exit

Spec == Init /\ [][Next]_vars

TypeOK ==
  /\ status \in {"idle", "running", "returned", "threw"}
  /\ ncalls \in 0..MaxCalls
  /\ DOMAIN seen \subseteq Objs
  /\ DOMAIN generatedIds \subseteq Objs

(***************************************************************************)
(* format as one recursive function: the text a call of engine f returns   *)
(* for v when it starts with the VisitedSet sn and the generator (ids,     *)
(* cur), or the fact that it throws.                                       *)
(***************************************************************************)
RECURSIVE format(_, _, _, _, _), formatEntries(_, _, _, _, _, _, _)
format(f, v, sn, ids, cur) ==
  IF v \in Scalars
  THEN [threw |-> FALSE, text |-> formatScalar(f, v), ids |-> ids, cur |-> cur]
  ELSE IF v \in DOMAIN sn
  THEN [threw |-> FALSE, text |-> formatCircularRef(f, sn, v), ids |-> ids, cur |-> cur]
  ELSE IF getConstructorName(ClassOf(v)).threw
  THEN [threw |-> TRUE, text |-> <<>>, ids |-> ids, cur |-> cur]
  ELSE IF hitMaxDepth(f)
  THEN [threw |-> FALSE,
        text |-> formatDepthCapped(f, getConstructorName(ClassOf(v)).name),
        ids |-> ids, cur |-> cur]
  ELSE LET g == generateId(ids, cur, v)
           r == formatEntries(f, v, 1, <<>>, MapSet(sn, v, g.id), g.ids, g.cur)
       IN  IF r.threw THEN r
           ELSE [r EXCEPT !.text =
                   formatExpanded(f, getConstructorName(ClassOf(v)).name, g.id,
                                  Wrapper(CategoryOf(v)), r.text)]

formatEntries(f, o, i, content, sn, ids, cur) ==
  IF i > Len(Entries(o))
  THEN [threw |-> FALSE, text |-> content, ids |-> ids, cur |-> cur]
  ELSE IF Entries(o)[i] = Throwing
  THEN [threw |-> TRUE, text |-> <<>>, ids |-> ids, cur |-> cur]
  ELSE LET r == format(getChildFormatter(f, YieldsEntry(CategoryOf(o))),
                       Entries(o)[i], sn, ids, cur)
       IN  IF r.threw THEN r
           ELSE formatEntries(f, o, i + 1,
                              content \o EntryText([obj |-> o, fmt |-> f], r.text),
                              sn, r.ids, r.cur)

\* new Formatter(options).format(v): a call on a freshly constructed engine
FreshFormat(v) == format(Formatter(options), v, EmptyMap, EmptyMap, FirstId)

(***************************************************************************)
(* Vocabulary of the properties.                                           *)
(***************************************************************************)
\* the composites a composite holds directly
Children(o) == {Entries(o)[i] : i \in 1..Len(Entries(o))} \cap Objs

RECURSIVE ReachFrom(_, _)
ReachFrom(frontier, found) ==
  LET new == UNION {Children(o) : o \in frontier} \ found
  IN  IF new = {} THEN found ELSE ReachFrom(new, found \cup new)

\* the composites below o: its descendants
Descendants(o) == ReachFrom({o}, {})

\* the composites a call on v can visit
Visited(v) == {v} \cup Descendants(v)

\* no composite the call visits is its own descendant
Acyclic(v) == v \in Objs /\ \A o \in Visited(v) : o \notin Descendants(o)

\* an element whose retrieval throws is among the elements the call visits
HasThrowing(v) ==
  /\ v \in Objs
  /\ \E o \in Visited(v) : \E i \in 1..Len(Entries(o)) : Entries(o)[i] = Throwing

Occurrences(o, v) == {i \in 1..Len(Entries(o)) : Entries(o)[i] = v}

\* v holds itself in exactly one element, and nothing else below it leads
\* back to a composite already entered
SelfContaining(v) ==
  /\ v \in Objs
  /\ Cardinality(Occurrences(v, v)) = 1
  /\ \A o \in Descendants(v) \ {v} : o \notin Descendants(o) /\ v \notin Descendants(o)

\* the labels of the circular-reference markers of a text, in order: "" for
\* [Circular], "#n" for [Circular#n]
RECURSIVE Markers(_)
Markers(text) ==
  IF Len(text) < 2 THEN <<>>
  ELSE IF text[1] = "Circular"
  THEN <<IF text[2] = "]" THEN "" ELSE text[2]>> \o Markers(Tail(text))
  ELSE Markers(Tail(text))

Count(text, tok) == Cardinality({i \in 1..Len(text) : text[i] = tok})

\* the composites whose expansion is in progress
Active == {stack[i].obj : i \in 1..Len(stack)}

\* nesting depth of the value formatted next: 1 for the argument of the call
NestingDepth == Len(stack) + 1

\* the display name documented for each runtime class
TypeName(c) == IF c \in {"Anon", "NullProto"} THEN "Object" ELSE c

(***************************************************************************)
(* The stack machine and the recursive function agree on the first call.   *)
(***************************************************************************)
FirstCallAgrees ==
  ncalls = 1 =>
    /\ status = "returned" => ~FreshFormat(arg).threw /\ out = FreshFormat(arg).text
    /\ status = "threw" => FreshFormat(arg).threw

\* a text without its leading indentation
RECURSIVE Trim(_)
Trim(text) ==
  IF text # <<>> /\ text[1] = " " THEN Trim(Tail(text)) ELSE text

(***************************************************************************)
(* C1.  Formatting a composite that holds itself in one element returns a  *)
(* text with exactly one circular-reference marker: [Circular] when        *)
(* circularId is off, [Circular#1] when it is on (default max depth).      *)
(***************************************************************************)
C1_SelfReferenceMarker ==
  (/\ status = "returned"
   /\ arg \in Objs
   /\ SelfContaining(arg)
   /\ options.depth = DefaultDepth)
  => Markers(out) = <<IF options.circularId THEN "#1" ELSE "">>

\* C1 on a freshly constructed Formatter: the first call made on it
C1_OnFreshFormatter ==
  (/\ ncalls = 1
   /\ status = "returned"
   /\ SelfContaining(arg)
   /\ options.depth = DefaultDepth)
  => Markers(out) = <<IF options.circularId THEN "#1" ELSE "">>

(***************************************************************************)
(* C2.  A composite v held twice by the formatted composite, v not below   *)
(* itself: with circularId on (default max depth, no throwing element) the *)
(* call returns, both occurrences are expanded under the one id of v, and  *)
(* the text has no circular-reference marker.                              *)
(***************************************************************************)
C2_SharedValueSameId ==
  \A v \in Objs :
    (/\ status \in {"returned", "threw"}
     /\ arg \in Objs
     /\ v # arg
     /\ Cardinality(Occurrences(arg, v)) >= 2
     /\ v \notin Descendants(v)
     /\ ~HasThrowing(arg)
     /\ options.circularId
     /\ options.depth = DefaultDepth)
    => /\ status = "returned"
       /\ Markers(out) = <<>>
       /\ v \in DOMAIN generatedIds
       /\ Count(out, "#" \o ToString(generatedIds[v]))
            = Cardinality(Occurrences(arg, v))

\* C2 for a first call that returns
C2_OnFreshFormatter ==
  \A v \in Objs :
    (/\ ncalls = 1
     /\ status = "returned"
     /\ arg \in Objs
     /\ v # arg
     /\ Cardinality(Occurrences(arg, v)) >= 2
     /\ v \notin Descendants(v)
     /\ options.circularId
     /\ options.depth = DefaultDepth)
    => /\ Markers(out) = <<>>
       /\ v \in DOMAIN generatedIds
       /\ Count(out, "#" \o ToString(generatedIds[v]))
            = Cardinality(Occurrences(arg, v))

C4_CallsSelfContained ==
  /\ status = "returned" => ~FreshFormat(arg).threw /\ out = FreshFormat(arg).text
  /\ status = "threw" => FreshFormat(arg).threw

(***************************************************************************)
(* C5.  format does not throw for a value none of whose elements throws on *)
(* retrieval: every composite gets a display type name.                    *)
(***************************************************************************)
C5_NeverThrows ==
  (status \in {"returned", "threw"} /\ ~HasThrowing(arg)) => status = "returned"

(***************************************************************************)
(* C6.  The VisitedSet holds exactly the composites whose expansion is in  *)
(* progress; it is empty when no call is in progress, also after a call    *)
(* that ended with an error.                                               *)
(***************************************************************************)
C6_SeenIsActiveStack == DOMAIN seen = Active

(***************************************************************************)
(* C7.  generateId gives an identity its id once: the first call returns   *)
(* the counter and increments it, a later call returns the same id and     *)
(* leaves the counter; ids of distinct identities are distinct and         *)
(* increase in first-visit order; the counter never decreases.             *)
(***************************************************************************)
C7_IdsOncePerIdentity ==
  /\ [](/\ \A a, b \in DOMAIN generatedIds :
             a # b => generatedIds[a] # generatedIds[b]
        /\ \A a \in DOMAIN generatedIds :
             FirstId <= generatedIds[a] /\ generatedIds[a] < currentId
        /\ {visitOrder[i] : i \in 1..Len(visitOrder)} = DOMAIN generatedIds
        /\ \A i, j \in 1..Len(visitOrder) :
             i < j => generatedIds[visitOrder[i]] < generatedIds[visitOrder[j]])
  /\ [][/\ currentId' >= currentId
        /\ \A o \in DOMAIN generatedIds :
             o \in DOMAIN generatedIds' /\ generatedIds'[o] = generatedIds[o]
        /\ ev'.kind = "enter" =>
             IF ev'.val \in DOMAIN generatedIds
             THEN /\ stack'[1].seenId = generatedIds[ev'.val]
                  /\ currentId' = currentId
                  /\ generatedIds' = generatedIds
             ELSE /\ stack'[1].seenId = currentId
                  /\ currentId' = currentId + 1
                  /\ generatedIds'[ev'.val] = currentId]_vars

\* generateId was called again for an identity after other identities got
\* their ids
C7_Witness ==
  /\ ev.kind = "enter"
  /\ stack[1].seenId + 1 < currentId

(***************************************************************************)
(* C8 as stated.  A child engine has the depth, indentRoot, escapeString   *)
(* and circularId of its parent, and an indent one level larger.           *)
(***************************************************************************)
C8_ChildInheritsAll ==
  ev.parent # NoFormatter =>
    /\ ev.fmt.depth = ev.parent.depth
    /\ ev.fmt.indentRoot = ev.parent.indentRoot
    /\ ev.fmt.escapeString = ev.parent.escapeString
    /\ ev.fmt.circularId = ev.parent.circularId
    /\ ev.fmt.indent = ev.parent.indent + options.indent

(***************************************************************************)
(* C8 amended.  A child engine has the depth, escapeString and circularId  *)
(* of its parent; its indentRoot is true whatever the parent's; its indent *)
(* is the parent's plus one level when the parent's indentRoot is true and *)
(* the parent's indent otherwise.                                          *)
(***************************************************************************)
C8_ChildInherits ==
  ev.parent # NoFormatter =>
    /\ ev.fmt.depth = ev.parent.depth
    /\ ev.fmt.escapeString = ev.parent.escapeString
    /\ ev.fmt.circularId = ev.parent.circularId
    /\ ev.fmt.indentRoot
    /\ ev.fmt.indent =
         ev.parent.indent + (IF ev.parent.indentRoot THEN options.indent ELSE 0)

\* an engine two levels below the root engine, its indent grown
C8_Witness ==
  /\ ev.parent # NoFormatter
  /\ ev.fmt.currentDepth = 3
  /\ ev.fmt.indent > options.indent

(***************************************************************************)
(* C9.  The text returned for a composite below which no composite is its  *)
(* own descendant has no circular-reference marker.                        *)
(***************************************************************************)
C9_AcyclicNoMarker ==
  (status = "returned" /\ arg \in Objs /\ Acyclic(arg)) => Markers(out) = <<>>

\* C9 on a freshly constructed Formatter: the first call made on it
C9_OnFreshFormatter ==
  (ncalls = 1 /\ status = "returned" /\ Acyclic(arg)) => Markers(out) = <<>>

(***************************************************************************)
(* C10.  With indentRoot false the text a top-level call returns does not  *)
(* start with indentation.                                                 *)
(***************************************************************************)
C10_RootLineNotIndented ==
  (status = "returned" /\ ~options.indentRoot) => (out = <<>> \/ out[1] # " ")

====
